---- MODULE Spec2Model ----
(***************************************************************************)
(* The read-through cache of the Akwam streaming API                       *)
(* (backend/src/main.py) and the model validators it could use            *)
(* (backend/src/models.py).                                                *)
(*                                                                         *)
(* Six request handlers share one Redis store.  Each handler derives a     *)
(* cache key, reads the store, returns the decoded entry when there is     *)
(* one, and otherwise awaits the upstream resolver, writes the encoded     *)
(* result with a TTL and returns it.  The handlers are coroutines on one   *)
(* event loop: the only suspension point of a handler is the await of the  *)
(* resolver, so a handler is two atomic steps, one up to the await and one *)
(* after it.                                                               *)
(***************************************************************************)
EXTENDS Integers, Sequences, FiniteSets, TLC

VARIABLES
    cache,   \* the Redis store: key -> [val, exp] (+ bookkeeping at, by)
    now,     \* the clock of the store, in seconds
    task,    \* the requests, numbered in order of arrival
    probe    \* inputs and outputs of the pure functions under test

vars == <<cache, now, task, probe>>

---------------------------------------------------------------------------
(* Bounds of the model.                                                    *)

\* Number of requests that arrive.
MaxRequests == 2
\* Seconds the clock advances in one step, and the last instant modelled.
Quantum == 1800
MaxTime == 7200
\* The calendar year at instant 0.
EpochYear == 2026

Tasks == 1..MaxRequests

---------------------------------------------------------------------------
(* Text: str(int) of the f-strings, and the search for a character.        *)

Digit(d) == SubSeq("0123456789", d + 1, d + 1)

RECURSIVE StrNat(_)
StrNat(n) == IF n < 10 THEN Digit(n) ELSE StrNat(n \div 10) \o Digit(n % 10)

\* Python's str(int).
Str(n) == IF n < 0 THEN "-" \o StrNat(0 - n) ELSE StrNat(n)

\* The value of one decimal digit character (-1 when it is no digit).
DigitValue(c) ==
    IF \E d \in 0..9 : Digit(d) = c THEN CHOOSE d \in 0..9 : Digit(d) = c ELSE 0 - 1

RECURSIVE ParseNat(_)
ParseNat(s) ==
    IF Len(s) = 1 THEN DigitValue(s)
    ELSE 10 * ParseNat(SubSeq(s, 1, Len(s) - 1)) + DigitValue(SubSeq(s, Len(s), Len(s)))

\* Python's int(text) for the texts Str produces.
ParseInt(s) ==
    IF SubSeq(s, 1, 1) = "-" THEN 0 - ParseNat(SubSeq(s, 2, Len(s))) ELSE ParseNat(s)

\* Position of the first occurrence of the text t in s at or after from, 0 if none.
RECURSIVE Find(_, _, _)
Find(s, t, from) ==
    IF from + Len(t) - 1 > Len(s) THEN 0
    ELSE IF SubSeq(s, from, from + Len(t) - 1) = t THEN from
    ELSE Find(s, t, from + 1)

---------------------------------------------------------------------------
(* Data: what the upstream resolver hands back, and its JSON text.         *)
(* The resolver functions of main.py are stubs for a scraper that is not   *)
(* part of the program ("would be implemented in scraper.py"); they are    *)
(* the environment of the handlers: each call may return any loosely       *)
(* structured value, or raise.                                             *)

\* Python's None, as returned by get_movie_info and get_series_info.
None == [kind |-> "null"]
\* Python's [], as returned by extract_video_sources.
EmptyList == [kind |-> "list"]
\* A non-empty dict describing one entity.
Item(id, year) == [kind |-> "dict", id |-> id, year |-> year]

\* The values a call of the resolver of op returns in the model: the stub's
\* empty answer, an entity, and for a movie an entity with a year out of range.
ResolverData(op) ==
    CASE op \in {"movie"} -> {None, Item("m1", 2000), Item("m1", 1800)}
      [] op \in {"series"} -> {None, Item("s1", 2000)}
      [] op \in {"watch"} -> {EmptyList, Item("w1", 2000)}
      [] OTHER -> {EmptyList, Item("x1", 2000)}

AllResolverData ==
    UNION {ResolverData(op) : op \in {"home", "search", "movie", "series", "watch", "category"}}

\* No value: the response of a request that has not returned.
NoData == [kind |-> "none"]

\* Python's truth value of a resolver result (if movie_data: ...).
Truthy(d) == d.kind = "dict"

\* json.dumps(data).
json_dumps(d) ==
    CASE d.kind = "null" -> "null"
      [] d.kind = "list" -> "[]"
      [] d.kind = "dict" ->
            "{\"id\": \"" \o d.id \o "\", \"year\": " \o Str(d.year) \o "}"

\* json.loads(text), for the texts json_dumps produces.
json_loads(s) ==
    IF s = "null" THEN None
    ELSE IF s = "[]" THEN EmptyList
    ELSE LET idFrom == Len("{\"id\": \"") + 1
             idEnd == Find(s, "\", \"year\": ", idFrom)
             yearFrom == idEnd + Len("\", \"year\": ")
         IN  Item(SubSeq(s, idFrom, idEnd - 1),
                  ParseInt(SubSeq(s, yearFrom, Len(s) - 1)))

---------------------------------------------------------------------------
(* Validation (models.py).  main.py imports none of it.                    *)

\* datetime.now().year at instant t.
current_year(t) == EpochYear + t \div (365 * 86400)

\* MovieBase.validate_year: TRUE when the validator returns v, FALSE when it
\* raises ValueError('Invalid year').
validate_year(v, t) == ~(v # 0 /\ (v < 1900 \/ v > current_year(t) + 1))

\* Whether raw data for the entity of op passes the model's validators at
\* instant t, for the fields the model of the data carries: a movie's year.
Validates(op, d, t) ==
    IF op = "movie" /\ d.kind = "dict" THEN validate_year(d.year, t) ELSE TRUE

---------------------------------------------------------------------------
(* Requests and the handlers' constants.                                   *)

HomeReq(page) == [op |-> "home", page |-> page]
SearchReq(query, page) == [op |-> "search", query |-> query, page |-> page]
MovieReq(movie_id) == [op |-> "movie", movie_id |-> movie_id]
SeriesReq(series_id) == [op |-> "series", series_id |-> series_id]
WatchReq(content_id) == [op |-> "watch", content_id |-> content_id]
CategoryReq(category, page) == [op |-> "category", category |-> category, page |-> page]

\* The requests clients send in the model: one per operation.
Requests ==
    {HomeReq(1), SearchReq("batman", 1), MovieReq("m1"), SeriesReq("s1"),
     WatchReq("w1"), CategoryReq("action", 1)}

NoReq == [op |-> "none"]

\* The keys with the separator before the page left out.
CacheKeyUnseparated(rq) ==
    CASE rq.op = "home" -> "home_page_" \o Str(rq.page)
      [] rq.op = "search" -> "search_" \o rq.query \o Str(rq.page)
      [] rq.op = "movie" -> "movie_" \o rq.movie_id
      [] rq.op = "series" -> "series_" \o rq.series_id
      [] rq.op = "watch" -> "watch_" \o rq.content_id
      [] rq.op = "category" -> "category_" \o rq.category \o Str(rq.page)

\* cache_key = f"..." of each handler.
CacheKey(rq) ==
    CASE rq.op = "home" -> "home_page_" \o Str(rq.page)
      [] rq.op = "search" -> "search_" \o rq.query \o "_" \o Str(rq.page)
      [] rq.op = "movie" -> "movie_" \o rq.movie_id
      [] rq.op = "series" -> "series_" \o rq.series_id
      [] rq.op = "watch" -> "watch_" \o rq.content_id
      [] rq.op = "category" -> "category_" \o rq.category \o "_" \o Str(rq.page)

\* One time to live for every operation.
TTLFlat(op) == 3600

\* The second argument of redis_client.setex in each handler.
TTL(op) ==
    CASE op = "home" -> 3600
      [] op = "search" -> 1800
      [] op = "movie" -> 7200
      [] op = "series" -> 7200
      [] op = "watch" -> 3600
      [] op = "category" -> 3600

\* Every handler writes unconditionally.
ShouldStoreAlways(op, d) == TRUE

\* Every handler guards its write with "if <result>:".
ShouldStoreIfTruthy(op, d) == Truthy(d)

\* Whether the handler writes the resolver's result to the store:
\* movie, series and watch guard the setex with "if <result>:".
ShouldStore(op, d) ==
    IF op \in {"movie", "series", "watch"} THEN Truthy(d) ELSE TRUE

---------------------------------------------------------------------------
(* The Redis store.                                                        *)

\* redis_client.get(key): the text stored under key, or nothing.
Get(c, k) == IF k \in DOMAIN c THEN [found |-> TRUE, val |-> c[k].val]
             ELSE [found |-> FALSE, val |-> ""]

\* A handler that never takes the branch of the cached entry.
IsHitNever(cached) == FALSE

\* "if cached:" : Python's truth value of what get returned (None or a str).
IsHit(cached) == cached.found /\ cached.val # ""

\* A write that replaces the whole store by the one entry.
SetexAlone(c, k, ttl, text, t, i) ==
    [x \in {k} |-> [val |-> text, exp |-> t + ttl, at |-> t, by |-> i]]

\* redis_client.setex(key, ttl, text) at instant t by request i.
Setex(c, k, ttl, text, t, i) ==
    [x \in DOMAIN c \cup {k} |->
        IF x = k THEN [val |-> text, exp |-> t + ttl, at |-> t, by |-> i] ELSE c[x]]

\* Redis drops an entry once its time to live has run out.
Expire(c, t) == [x \in {k \in DOMAIN c : c[k].exp > t} |-> c[x]]

---------------------------------------------------------------------------
(* The requests.                                                           *)
(* task[i].pc: "idle" (not yet arrived), "resolving" (suspended in the     *)
(* await of the resolver), "done" (returned result), "failed" (raised      *)
(* error).  calls counts the resolver calls the request made and upstream  *)
(* is how its call ended ("none", "returned", "raised"); during is         *)
(* bookkeeping: the requests for the same key that were suspended when     *)
(* this one arrived.                                                       *)

IdleTask ==
    [pc |-> "idle", rq |-> NoReq, during |-> {}, calls |-> 0, upstream |-> "none",
     result |-> NoData, error |-> "none"]

\* The requests for the key of rq that are suspended in their await.
Resolving(rq) == {j \in Tasks : task[j].pc = "resolving" /\ task[j].rq = rq}

\* Requests are numbered in the order they arrive.
Arrives(i) ==
    task[i].pc = "idle" /\ (IF i = 1 THEN TRUE ELSE task[i - 1].pc # "idle")

\* A handler that on a hit writes the entry back with a fresh time to live.
LookupRefreshing(i, rq) ==
    /\ Arrives(i)
    /\ LET k == CacheKey(rq)
           cached == Get(cache, k)
       IN  IF IsHit(cached)
           THEN /\ task' = [task EXCEPT ![i] =
                      [pc |-> "done", rq |-> rq, during |-> Resolving(rq), calls |-> 0,
                       upstream |-> "none", result |-> json_loads(cached.val),
                       error |-> "none"]]
                /\ cache' = Setex(cache, k, TTL(rq.op), cached.val, now, cache[k].by)
           ELSE /\ task' = [task EXCEPT ![i] =
                      [pc |-> "resolving", rq |-> rq, during |-> Resolving(rq),
                       calls |-> 1, upstream |-> "none", result |-> NoData,
                       error |-> "none"]]
                /\ cache' = cache
    /\ UNCHANGED <<now, probe>>

\* A handler up to its await: derive the key, read the store, and either
\* return the decoded entry or call the resolver.
Lookup(i, rq) ==
    /\ Arrives(i)
    /\ LET cached == Get(cache, CacheKey(rq))
       IN  task' = [task EXCEPT ![i] =
                IF IsHit(cached)
                THEN [pc |-> "done", rq |-> rq, during |-> Resolving(rq), calls |-> 0,
                      upstream |-> "none", result |-> json_loads(cached.val), error |-> "none"]
                ELSE [pc |-> "resolving", rq |-> rq, during |-> Resolving(rq), calls |-> 1,
                      upstream |-> "none", result |-> NoData, error |-> "none"]]
    /\ UNCHANGED <<cache, now, probe>>

\* redis_client.get raises because the store is unreachable: no handler
\* catches it, the request fails.
LookupFails(i, rq) ==
    /\ Arrives(i)
    /\ task' = [task EXCEPT ![i] =
            [pc |-> "failed", rq |-> rq, during |-> Resolving(rq), calls |-> 0,
             upstream |-> "none", result |-> NoData, error |-> "CacheError"]]
    /\ UNCHANGED <<cache, now, probe>>

Enter(i, op) ==
    \E rq \in Requests : rq.op = op /\ (Lookup(i, rq) \/ LookupFails(i, rq))

get_home_page(i) == Enter(i, "home")
search_content(i) == Enter(i, "search")
get_movie_details(i) == Enter(i, "movie")
get_series_details(i) == Enter(i, "series")
get_video_sources(i) == Enter(i, "watch")
get_category(i) == Enter(i, "category")

\* The await returns d: the handler writes it to the store when its guard
\* allows and returns it.
ResolverReturns(i, d) ==
    /\ task[i].pc = "resolving"
    /\ d \in ResolverData(task[i].rq.op)
    /\ LET rq == task[i].rq
       IN  cache' = IF ShouldStore(rq.op, d)
                    THEN Setex(cache, CacheKey(rq), TTL(rq.op), json_dumps(d), now, i)
                    ELSE cache
    /\ task' = [task EXCEPT ![i].pc = "done", ![i].upstream = "returned",
                                ![i].result = d]
    /\ UNCHANGED <<now, probe>>

\* The await returns d but redis_client.setex raises: the request fails.
StoreFails(i, d) ==
    /\ task[i].pc = "resolving"
    /\ d \in ResolverData(task[i].rq.op)
    /\ ShouldStore(task[i].rq.op, d)
    /\ task' = [task EXCEPT ![i].pc = "failed", ![i].upstream = "returned",
                                ![i].error = "CacheError"]
    /\ UNCHANGED <<cache, now, probe>>

\* The await raises and the handler swallows it: it stores and returns None.
ResolverRaisesSwallowed(i) ==
    /\ task[i].pc = "resolving"
    /\ cache' = Setex(cache, CacheKey(task[i].rq), TTL(task[i].rq.op),
                      json_dumps(None), now, i)
    /\ task' = [task EXCEPT ![i].pc = "done", ![i].upstream = "raised",
                                ![i].result = None]
    /\ UNCHANGED <<now, probe>>

\* The await raises: the exception leaves the handler.
ResolverRaises(i) ==
    /\ task[i].pc = "resolving"
    /\ task' = [task EXCEPT ![i].pc = "failed", ![i].upstream = "raised",
                                ![i].error = "UpstreamError"]
    /\ UNCHANGED <<cache, now, probe>>

\* Time passes; the store drops what has expired.
Tick ==
    /\ now + Quantum <= MaxTime
    /\ now' = now + Quantum
    /\ cache' = Expire(cache, now + Quantum)
    /\ UNCHANGED <<task, probe>>

NoProbe == [kind |-> "none"]

Init ==
    /\ cache = <<>>
    /\ now = 0
    /\ task = [i \in Tasks |-> IdleTask]
    /\ probe = NoProbe

Next ==
    \/ \E i \in Tasks : get_home_page(i)
    \/ \E i \in Tasks : search_content(i)
    \/ \E i \in Tasks : get_movie_details(i)
    \/ \E i \in Tasks : get_series_details(i)
    \/ \E i \in Tasks : get_video_sources(i)
    \/ \E i \in Tasks : get_category(i)
    \/ \E i \in Tasks, d \in AllResolverData : ResolverReturns(i, d)
    \/ \E i \in Tasks, d \in AllResolverData : StoreFails(i, d)
    \/ \E i \in Tasks : ResolverRaises(i)
    \/ Tick

Spec == Init /\ [][Next]_vars

\* The same program with time that keeps passing.  Nothing obliges the
\* resolver to return, and the handlers have no step of their own to take
\* while they are suspended in the await.
LiveSpec == Spec /\ WF_vars(Tick)

---------------------------------------------------------------------------
(* Key derivation on its own: two requests drawn from parameters that      *)
(* contain the separator, digits and one another as prefixes, and the keys *)
(* the handlers derive for them.                                           *)

KeyPages == {-1, 1, 11}
KeyTexts == {"a", "a1", "a_1", "1", "page_1", "A", " a "}

KeyRequests ==
    {HomeReq(p) : p \in KeyPages}
        \cup {SearchReq(q, p) : q \in KeyTexts, p \in KeyPages}
        \cup {MovieReq(x) : x \in KeyTexts}
        \cup {SeriesReq(x) : x \in KeyTexts}
        \cup {WatchReq(x) : x \in KeyTexts}
        \cup {CategoryReq(c, p) : c \in KeyTexts, p \in KeyPages}

InitKey ==
    /\ cache = <<>>
    /\ now = 0
    /\ task = [i \in Tasks |-> IdleTask]
    /\ probe \in {[kind |-> "keys", a |-> a, b |-> b, ka |-> "", kb |-> "",
                    derived |-> FALSE] : a \in KeyRequests, b \in KeyRequests}

\* Both handlers derive their cache_key.
DeriveKeys ==
    /\ probe.kind = "keys" /\ ~probe.derived
    /\ probe' = [probe EXCEPT !.ka = CacheKey(probe.a), !.kb = CacheKey(probe.b),
                               !.derived = TRUE]
    /\ UNCHANGED <<cache, now, task>>

NextKey == DeriveKeys

SpecKey == InitKey /\ [][NextKey]_vars

---------------------------------------------------------------------------
(* The models of models.py on their own: raw input drawn from bounded      *)
(* sets, constructed once or twice, possibly in different calendar years.  *)
(* An optional field is a set: {} when absent (None), {v} when present.    *)
(* A rating is in tenths.  The outcome of a construction is the set of     *)
(* fields pydantic reports in its ValidationError and, when that set is    *)
(* empty, the instance.                                                    *)

\* Calendar years that may pass between two constructions.
MaxYears == 1

NoEntity == [kind |-> "none"]

Rejected(fields) == [errors |-> fields, entity |-> NoEntity]
Accepted(e) == [errors |-> {}, entity |-> e]

\* A required field (Field(...)) is reported when it is absent.
Missing(raw, f) == IF raw[f] = {} THEN {f} ELSE {}

\* The value of a present optional field.
ValueOf(x) == CHOOSE v \in x : TRUE

\* Field(None, ge=0, le=10) of rating.
rating_in_range(r) == r >= 0 /\ r <= 10 * 10

\* MovieResponse(**raw) at instant t: id and title required (any str), year
\* through validate_year, rating through ge/le, created_at from
\* default_factory=datetime.now.  pydantic runs no validator on None.
MovieResponse(raw, t) ==
    LET errors ==
            Missing(raw, "id") \cup Missing(raw, "title")
                \cup (IF raw.year # {} /\ ~validate_year(ValueOf(raw.year), t)
                      THEN {"year"} ELSE {})
                \cup (IF raw.rating # {} /\ ~rating_in_range(ValueOf(raw.rating))
                      THEN {"rating"} ELSE {})
    IN  IF errors # {} THEN Rejected(errors)
        ELSE Accepted([id |-> ValueOf(raw.id), title |-> ValueOf(raw.title),
                       year |-> raw.year, rating |-> raw.rating, created_at |-> t])

MovieYears == {{}, {-5}, {0}, {1800}, {1899}, {1900}, {2000}, {EpochYear + 1},
               {EpochYear + 2}, {EpochYear + 3}}
MovieRatings == {{}, {-1}, {0}, {50}, {100}, {101}}

MovieInputs ==
    {[id |-> i, title |-> ti, year |-> y, rating |-> r] :
        i \in {{}, {""}, {"m1"}}, ti \in {{""}, {"T"}}, y \in MovieYears,
        r \in MovieRatings}

NewProbe(kind, raw) == [kind |-> kind, raw |-> raw, out |-> <<>>, times |-> <<>>]

\* One more construction from the same raw input, at the current instant.
Construct(kind, outcome) ==
    /\ probe.kind = kind
    /\ Len(probe.out) < 2
    /\ probe' = [probe EXCEPT !.out = Append(@, outcome), !.times = Append(@, now)]
    /\ UNCHANGED <<cache, now, task>>

ValidateMovie == Construct("movie", MovieResponse(probe.raw, now))

\* A calendar year passes.
YearPasses ==
    /\ now + 365 * 86400 <= MaxYears * 365 * 86400
    /\ now' = now + 365 * 86400
    /\ UNCHANGED <<cache, task, probe>>

\* str.startswith.
StartsWith(s, prefix) ==
    Len(s) >= Len(prefix) /\ SubSeq(s, 1, Len(prefix)) = prefix

\* VideoSource.validate_url.
validate_url(v) ==
    v # "" /\ (StartsWith(v, "http://") \/ StartsWith(v, "https://")
                  \/ StartsWith(v, "//"))

\* VideoSource(**raw): url required and through validate_url, is_direct
\* defaulting to True, requires_proxy defaulting to False.
VideoSource(raw) ==
    LET errors ==
            IF raw.url = {} \/ ~validate_url(ValueOf(raw.url)) THEN {"url"} ELSE {}
    IN  IF errors # {} THEN Rejected(errors)
        ELSE Accepted([url |-> ValueOf(raw.url),
                       is_direct |-> IF raw.is_direct = {} THEN TRUE
                                     ELSE ValueOf(raw.is_direct),
                       requires_proxy |-> IF raw.requires_proxy = {} THEN FALSE
                                          ELSE ValueOf(raw.requires_proxy)])

SourceInputs ==
    {[url |-> u, is_direct |-> d, requires_proxy |-> p] :
        u \in {{}, {""}, {"ftp://h/v"}, {"http://h/v"}, {"https://h/v"}, {"//h/v"}},
        d \in {{}, {TRUE}, {FALSE}}, p \in {{}, {TRUE}, {FALSE}}}

ValidateSource == Construct("source", VideoSource(probe.raw))

\* SeriesBase.validate_year_end: TRUE when the validator returns v, FALSE when
\* it raises ValueError.  start is values['year_start'], {} for None.
validate_year_end(v, start) ==
    ~(v # 0 /\ start # {} /\ ValueOf(start) # 0 /\ v < ValueOf(start))

\* SeriesResponse(**raw): id and title required, year_end through
\* validate_year_end (not run on None).
SeriesResponse(raw) ==
    LET errors ==
            Missing(raw, "id") \cup Missing(raw, "title")
                \cup (IF raw.year_end # {}
                         /\ ~validate_year_end(ValueOf(raw.year_end), raw.year_start)
                      THEN {"year_end"} ELSE {})
    IN  IF errors # {} THEN Rejected(errors)
        ELSE Accepted([id |-> ValueOf(raw.id), title |-> ValueOf(raw.title),
                       year_start |-> raw.year_start, year_end |-> raw.year_end])

SeriesYears == {{}, {-5}, {0}, {1999}, {2000}, {2001}}

SeriesInputs ==
    {[id |-> i, title |-> {"T"}, year_start |-> a, year_end |-> b] :
        i \in {{}, {"s1"}}, a \in SeriesYears, b \in SeriesYears}

ValidateSeries == Construct("series", SeriesResponse(probe.raw))

\* A candidate source as the resolver supplies it.
Source(quality, is_direct, bitrate) ==
    [quality |-> quality, is_direct |-> is_direct, bitrate |-> bitrate]

Candidates ==
    {Source("SD", TRUE, 500), Source("HD", FALSE, 300), Source("HD", TRUE, 200),
     Source("UHD", TRUE, 200)}

\* The lists the resolver supplies: up to three distinct candidates in any order.
SourceLists ==
    {l \in {<<a>> : a \in Candidates}
              \cup {<<a, b>> : a \in Candidates, b \in Candidates}
              \cup {<<a, b, c>> : a \in Candidates, b \in Candidates, c \in Candidates} :
        \A i, j \in 1..Len(l) : i # j => l[i] # l[j]}

\* What get_video_sources returns for the list the resolver supplied:
\* "sources = await extract_video_sources(content_id) ... return sources".
video_sources(sources) == sources

GetWatch == Construct("watch", video_sources(probe.raw))

ModelInputs ==
    {NewProbe("movie", r) : r \in MovieInputs}
        \cup {NewProbe("watch", l) : l \in SourceLists}
        \cup {NewProbe("source", r) : r \in SourceInputs}
        \cup {NewProbe("series", r) : r \in SeriesInputs}

InitModels ==
    /\ cache = <<>>
    /\ now = 0
    /\ task = [i \in Tasks |-> IdleTask]
    /\ probe \in ModelInputs

NextModels ==
    \/ ValidateMovie
    \/ ValidateSource
    \/ ValidateSeries
    \/ GetWatch
    \/ YearPasses

SpecModels == InitModels /\ [][NextModels]_vars

---------------------------------------------------------------------------
(* Properties.                                                             *)

OpOf(i) == task[i].rq.op
KeyOf(i) == CacheKey(task[i].rq)

\* Request i arrives in this step and its read of the store succeeds.
Began(i) ==
    task[i].pc = "idle" /\ task'[i].pc # "idle" /\ task'[i].error # "CacheError"

\* Request i arrives in this step and finds an unexpired entry under its key.
BeganOnEntry(i) ==
    /\ Began(i)
    /\ CacheKey(task'[i].rq) \in DOMAIN cache
    /\ now < cache[CacheKey(task'[i].rq)].exp

\* C1: once a request has populated the cache under key K, a later request
\* for K that arrives before the entry expires (and whose read of the store
\* succeeds) makes no call to the upstream resolver and returns the data the
\* populating request returned.
C1_ReadThroughIdempotent ==
    [][\A i \in Tasks :
          BeganOnEntry(i) =>
              /\ task'[i].pc = "done"
              /\ task'[i].calls = 0
              /\ task'[i].result = task[cache[CacheKey(task'[i].rq)].by].result]_vars

\* Two sequential GetMovie("m1"): the first resolved and stored, the second
\* was served from the store with the same data.
C1_Witness ==
    /\ task[1].rq = MovieReq("m1") /\ task[1].pc = "done" /\ task[1].calls = 1
    /\ task[2].rq = MovieReq("m1") /\ task[2].pc = "done" /\ task[2].calls = 0
    /\ task[2].during = {}
    /\ task[2].result = task[1].result
    /\ task[2].result = Item("m1", 2000)

\* The operations whose handlers guard the write with "if <result>:".
Suppressed == {"movie", "series", "watch"}

\* Request i returns from its await of the resolver in this step.
Resumed(i) == task[i].pc = "resolving" /\ task'[i].pc # "resolving"

\* C2: for GetMovie, GetSeries and GetWatch an empty or absent result is never
\* written to the cache: no entry of a movie/series/watch key holds an empty
\* value, a request that returns not-found leaves the store as it was, and a
\* request that finds no entry under its key calls the resolver.
C2_NegativeNeverCached ==
    /\ [](\A k \in DOMAIN cache :
             OpOf(cache[k].by) \in Suppressed => Truthy(json_loads(cache[k].val)))
    /\ [][\A i \in Tasks :
             (Resumed(i) /\ OpOf(i) \in Suppressed /\ task'[i].pc = "done"
                 /\ ~Truthy(task'[i].result)) => cache' = cache]_vars
    /\ [][\A i \in Tasks :
             (Began(i) /\ CacheKey(task'[i].rq) \notin DOMAIN cache) =>
                 task'[i].pc = "resolving" /\ task'[i].calls = 1]_vars

\* GetMovie("m1") returned not-found; the next GetMovie("m1"), arriving after
\* it had returned, called the resolver again.
C2_Witness ==
    /\ task[1].rq = MovieReq("m1") /\ task[1].pc = "done" /\ task[1].result = None
    /\ task[2].rq = MovieReq("m1") /\ task[2].calls = 1 /\ task[2].during = {}
    /\ CacheKey(MovieReq("m1")) \notin DOMAIN cache

\* The operations whose handlers write unconditionally.
Unconditional == {"home", "search", "category"}

\* C5: GetHome, Search and GetCategory store the resolver's result
\* unconditionally: when such a request returns, the store holds an unexpired
\* entry under its key (the text of the result, when the request resolved
\* it), and a request that finds an entry is served from it without a call of
\* the resolver, also when the stored result is empty.
C5_UnconditionalStore ==
    /\ [][\A i \in Tasks :
             (task[i].pc # "done" /\ task'[i].pc = "done"
                 /\ task'[i].rq.op \in Unconditional) =>
                 /\ CacheKey(task'[i].rq) \in DOMAIN cache'
                 /\ cache'[CacheKey(task'[i].rq)].exp > now'
                 /\ json_loads(cache'[CacheKey(task'[i].rq)].val) = task'[i].result
                 /\ Resumed(i) =>
                        cache'[CacheKey(task'[i].rq)].val = json_dumps(task'[i].result)]_vars
    /\ [][\A i \in Tasks :
             (BeganOnEntry(i) /\ task'[i].rq.op \in Unconditional) =>
                 task'[i].pc = "done" /\ task'[i].calls = 0]_vars

\* GetHome(1) resolved an empty result; the next GetHome(1) was served that
\* empty result from the store.
C5_Witness ==
    /\ task[1].rq = HomeReq(1) /\ task[1].pc = "done" /\ task[1].calls = 1
    /\ task[1].result = EmptyList
    /\ task[2].rq = HomeReq(1) /\ task[2].pc = "done" /\ task[2].calls = 0
    /\ task[2].result = EmptyList

\* The TTL table of the specification, in seconds.
ClaimedTTL(op) ==
    CASE op = "home" -> 3600
      [] op = "search" -> 1800
      [] op = "movie" -> 7200
      [] op = "series" -> 7200
      [] op = "watch" -> 3600
      [] op = "category" -> 3600

\* C6: every entry expires the TTL of its operation after the instant it was
\* stored; a request (whose read of the store succeeds) is served from the
\* store exactly when an entry was stored under its key less than that TTL
\* ago, and calls the resolver otherwise.
C6_TTLPerOperation ==
    /\ [](\A k \in DOMAIN cache :
             cache[k].exp = cache[k].at + ClaimedTTL(OpOf(cache[k].by)))
    /\ [][\A i \in Tasks :
             Began(i) =>
                 LET k == CacheKey(task'[i].rq)
                     fresh == k \in DOMAIN cache
                                 /\ now < cache[k].at + ClaimedTTL(task'[i].rq.op)
                 IN  /\ fresh => task'[i].pc = "done" /\ task'[i].calls = 0
                     /\ ~fresh => task'[i].pc = "resolving" /\ task'[i].calls = 1]_vars

\* A search result was stored at instant 0; a second Search arriving after
\* the first had returned, 1800 s or more later, called the resolver again.
C6_Witness ==
    /\ task[1].rq = SearchReq("batman", 1) /\ task[1].pc = "done" /\ task[1].calls = 1
    /\ task[2].rq = SearchReq("batman", 1) /\ task[2].calls = 1 /\ task[2].during = {}
    /\ task[2].pc = "resolving"
    /\ now >= 1800

\* C7: when the resolver call of a request raises, the store is left as it
\* was, the request fails with the error, and a request for the same key that
\* arrives afterwards and finds no entry starts a new resolution.
C7_FailureLeavesCache ==
    /\ [][\A i \in Tasks :
             (Resumed(i) /\ task'[i].upstream = "raised") =>
                 /\ cache' = cache
                 /\ task'[i].pc = "failed"
                 /\ task'[i].error = "UpstreamError"
                 /\ task'[i].result = NoData]_vars
    /\ [][\A i, j \in Tasks :
             (task[i].upstream = "raised" /\ Began(j) /\ task'[j].rq = task[i].rq
                 /\ CacheKey(task[i].rq) \notin DOMAIN cache) =>
                 task'[j].pc = "resolving" /\ task'[j].calls = 1]_vars

\* Search failed upstream with nothing stored; the next Search for the same
\* key is resolving anew.
C7_Witness ==
    /\ task[1].rq = SearchReq("batman", 1) /\ task[1].pc = "failed"
    /\ task[1].error = "UpstreamError"
    /\ task[2].rq = SearchReq("batman", 1) /\ task[2].pc = "resolving"
    /\ task[2].during = {}
    /\ cache = <<>>

\* C3: at most one upstream resolution per cache key is in flight at any
\* time.
C3_SingleFlight ==
    \A i, j \in Tasks :
        (task[i].pc = "resolving" /\ task[j].pc = "resolving" /\ KeyOf(i) = KeyOf(j))
            => i = j

\* C4: requests for the same key that overlap in time return identical
\* responses, and the value left in the store is what they received.
C4_IdenticalResponses ==
    \A i, j \in Tasks :
        (i \in task[j].during /\ task[i].pc = "done" /\ task[j].pc = "done") =>
            /\ task[i].result = task[j].result
            /\ KeyOf(j) \in DOMAIN cache =>
                   json_loads(cache[KeyOf(j)].val) = task[j].result

\* C8: every value held in the store passes the validation of its entity.
C8_CachedValuesValid ==
    \A k \in DOMAIN cache :
        Validates(OpOf(cache[k].by), json_loads(cache[k].val), cache[k].at)

\* C9: a failing read or write of the store never fails the request.
C9_CacheErrorNotFatal ==
    \A i \in Tasks : ~(task[i].pc = "failed" /\ task[i].error = "CacheError")

\* C10: two requests get the same cache key if and only if they have the same
\* operation and the same parameters, also when ids, queries and categories
\* contain the separator.
C10_KeyInjective ==
    (probe.kind = "keys" /\ probe.derived) =>
        ((probe.ka = probe.kb) <=> (probe.a = probe.b))

\* Two searches whose queries differ by a suffix made of the separator and a
\* page number got different keys.
C10_Witness ==
    /\ probe.kind = "keys" /\ probe.derived
    /\ probe.a = SearchReq("a_1", 1) /\ probe.b = SearchReq("a", 1)
    /\ probe.ka = "search_a_1_1" /\ probe.kb = "search_a_1"

\* The normalization the specification prescribes for a search query:
\* trimmed and lower-cased.
LowerChar(c) ==
    LET at == Find("ABCDEFGHIJKLMNOPQRSTUVWXYZ", c, 1)
    IN  IF at = 0 THEN c ELSE SubSeq("abcdefghijklmnopqrstuvwxyz", at, at)

RECURSIVE Lower(_)
Lower(s) == IF s = "" THEN "" ELSE LowerChar(SubSeq(s, 1, 1)) \o Lower(SubSeq(s, 2, Len(s)))

RECURSIVE Trim(_)
Trim(s) ==
    IF s = "" THEN ""
    ELSE IF SubSeq(s, 1, 1) = " " THEN Trim(SubSeq(s, 2, Len(s)))
    ELSE IF SubSeq(s, Len(s), Len(s)) = " " THEN Trim(SubSeq(s, 1, Len(s) - 1))
    ELSE s

NormalizedQuery(q) == Lower(Trim(q))

\* C11: two Search requests with the same page whose queries differ only in
\* letter case or in leading/trailing whitespace get the same cache key.
C11_SearchKeyNormalized ==
    (/\ probe.kind = "keys" /\ probe.derived
     /\ probe.a.op = "search" /\ probe.b.op = "search"
     /\ probe.a.page = probe.b.page
     /\ NormalizedQuery(probe.a.query) = NormalizedQuery(probe.b.query))
        => probe.ka = probe.kb

\* The outcomes of the constructions made so far from the raw input.
Outcomes == {n \in 1..Len(probe.out) : TRUE}

\* The year range of the specification, at instant t.
YearInRange(y, t) == 1900 <= y /\ y <= current_year(t) + 1

\* C12: movie validation accepts a year exactly when it is absent or within
\* 1900..current_year+1 and a rating exactly when it is absent or within
\* 0..10, and reports the field otherwise.
C12_MovieRanges ==
    probe.kind = "movie" =>
        \A n \in Outcomes :
            /\ "year" \in probe.out[n].errors <=>
                   (probe.raw.year # {}
                        /\ ~YearInRange(ValueOf(probe.raw.year), probe.times[n]))
            /\ "rating" \in probe.out[n].errors <=>
                   (probe.raw.rating # {}
                        /\ ~(0 <= ValueOf(probe.raw.rating)
                                /\ ValueOf(probe.raw.rating) <= 100))

\* C13: every validated VideoSource satisfies requires_proxy => ~is_direct.
C13_ProxiedNeverDirect ==
    probe.kind = "source" =>
        \A n \in Outcomes :
            probe.out[n].errors = {} =>
                (probe.out[n].entity.requires_proxy => ~probe.out[n].entity.is_direct)

\* C16: validating the same raw input twice, at any two points in time,
\* yields the same entity or the same error.
C16_ValidationDeterministic ==
    (probe.kind \in {"movie", "series", "source"} /\ Len(probe.out) = 2) =>
        probe.out[1] = probe.out[2]

\* C17: a validated Series with both years present has year_end >= year_start,
\* and input with both present and year_end < year_start is rejected.
C17_SeriesYearsOrdered ==
    (probe.kind = "series" /\ probe.raw.year_start # {} /\ probe.raw.year_end # {}) =>
        \A n \in Outcomes :
            /\ probe.out[n].errors = {} =>
                   ValueOf(probe.out[n].entity.year_end)
                       >= ValueOf(probe.out[n].entity.year_start)
            /\ ValueOf(probe.raw.year_end) < ValueOf(probe.raw.year_start) =>
                   "year_end" \in probe.out[n].errors

\* C18: a validated Movie has a non-empty id and a non-empty title; an empty
\* id or title is rejected with an error naming the field.
C18_MovieIdTitleNonEmpty ==
    probe.kind = "movie" =>
        \A n \in Outcomes :
            /\ probe.out[n].errors = {} =>
                   probe.out[n].entity.id # "" /\ probe.out[n].entity.title # ""
            /\ probe.raw.id = {""} => "id" \in probe.out[n].errors
            /\ probe.raw.title = {""} => "title" \in probe.out[n].errors

\* The order of the specification's Quality: SD < HD < FHD < UHD.
QualityRank(q) == CASE q = "SD" -> 1 [] q = "HD" -> 2 [] q = "FHD" -> 3 [] q = "UHD" -> 4

\* x ranks strictly before y: higher quality, then direct before proxied,
\* then higher bitrate.
RanksBefore(x, y) ==
    \/ QualityRank(x.quality) > QualityRank(y.quality)
    \/ x.quality = y.quality /\ x.is_direct /\ ~y.is_direct
    \/ x.quality = y.quality /\ x.is_direct = y.is_direct /\ x.bitrate > y.bitrate

\* C14: the list GetWatch returns holds the candidates the resolver supplied,
\* best first; the specification's example comes out in its stated order.
C14_SourcesBestFirst ==
    probe.kind = "watch" =>
        \A n \in Outcomes :
            LET out == probe.out[n]
            IN  /\ Len(out) = Len(probe.raw)
                /\ {out[i] : i \in 1..Len(out)} = {probe.raw[i] : i \in 1..Len(probe.raw)}
                /\ \A i, j \in 1..Len(out) : i < j => ~RanksBefore(out[j], out[i])
                /\ probe.raw = <<Source("SD", TRUE, 500), Source("HD", FALSE, 300),
                                 Source("HD", TRUE, 200)>>
                       => out = <<Source("HD", TRUE, 200), Source("HD", FALSE, 300),
                                  Source("SD", TRUE, 500)>>

\* C15: the wait on the upstream resolver is bounded: a request suspended in
\* its resolver call eventually completes, whether or not the resolver
\* returns.
C15_BoundedWait ==
    \A i \in Tasks : (task[i].pc = "resolving") ~> (task[i].pc \in {"done", "failed"})

\* Request i takes a step.
Steps(i) == task'[i] # task[i]

\* C19: a step of a request for key K, whether it hits, misses or fails,
\* leaves the value and expiry of every entry under another key unchanged.
C19_OnlyOwnKeyWritten ==
    [][\A i \in Tasks :
          Steps(i) =>
              \A k \in (DOMAIN cache \cup DOMAIN cache') \ {CacheKey(task'[i].rq)} :
                  /\ k \in DOMAIN cache /\ k \in DOMAIN cache'
                  /\ cache'[k] = cache[k]]_vars

\* A home entry stored at instant 0 is intact after a later movie request
\* resolved and stored under its own key.
C19_Witness ==
    /\ task[1].rq = HomeReq(1) /\ task[1].pc = "done"
    /\ task[2].rq = MovieReq("m1") /\ task[2].pc = "done" /\ task[2].calls = 1
    /\ DOMAIN cache = {"home_page_1", "movie_m1"}
    /\ cache["home_page_1"].at = 0 /\ cache["home_page_1"].by = 1
    /\ cache["movie_m1"].at = 1800 /\ cache["movie_m1"].by = 2

\* C20: a request that finds an unexpired entry under its key changes neither
\* the stored value nor its expiry (nor anything else in the store).
C20_HitReadOnly ==
    [][\A i \in Tasks : BeganOnEntry(i) => cache' = cache]_vars

\* A movie entry stored at instant 0 was read by a second request and still
\* expires 7200 s after its store, with time having passed since.
C20_Witness ==
    /\ task[1].rq = MovieReq("m1") /\ task[1].pc = "done" /\ task[1].calls = 1
    /\ task[2].rq = MovieReq("m1") /\ task[2].pc = "done" /\ task[2].calls = 0
    /\ now = 3600
    /\ "movie_m1" \in DOMAIN cache
    /\ cache["movie_m1"].at = 0 /\ cache["movie_m1"].exp = 7200

====
